---- MODULE Spec2Model ----
(***************************************************************************)
(* Model of the E-Commerce-Database scripts:                               *)
(*   scripts/generate_data.py    - the dataset generator   (SpecGen)       *)
(*   scripts/ingest_to_sqlite.py - the loader / reconciler (SpecLoad)      *)
(*   scripts/run_queries.py      - the query runner        (SpecQuery)     *)
(* The three scripts share no state, so each has its own specification     *)
(* over its own variables; the other scripts' variables stay at their      *)
(* initial values.                                                         *)
(***************************************************************************)
EXTENDS Integers, Sequences, FiniteSets, TLC

(***************************************************************************)
(* Bounds.  The generator's population sizes and ranges are scaled down.   *)
(***************************************************************************)
\* range(500) customers, generate_data.py:87
NumCustomers == 2
\* range(200) products, generate_data.py:115
NumProducts == 2
\* range(1500) orders, generate_data.py:151
NumOrders == 2
\* range(800) reviews, generate_data.py:242
NumReviews == 1
\* random.randint(1, 6) items per order, generate_data.py:186
MaxItemsPerOrder == 2
\* random.randint(1, 5) quantity, generate_data.py:196
MaxQuantity == 2
\* random.randint(0, 1095) days back, generate_data.py:91
MaxDaysBack == 1
\* min(400, len(customer_ids)), generate_data.py:239
MaxReviewingCustomers == 1
\* min(150, len(product_ids)), generate_data.py:240
MaxReviewedProducts == 1
\* rows in one input file of the loader, and the order / item ids they use
MaxCsvRows == 2
\* lines in the query batch file
MaxBatchLines == 4

(***************************************************************************)
(* Decimal values are integers in thousandths (mills), so that quantizing  *)
(* to two places is a real rounding step.                                  *)
(***************************************************************************)
Min(a, b) == IF a < b THEN a ELSE b

Abs(x) == IF x < 0 THEN -x ELSE x

\* The set {s[i]} of a sequence's elements.
Range(s) == {s[i] : i \in DOMAIN s}

\* Decimal.quantize(Decimal('0.01'), rounding=ROUND_HALF_UP) on a value >= 0.
QuantizeHalfUp(m) == ((m + 5) \div 10) * 10

\* str(Decimal) of a value quantized to two places: <<units, hundredths>>.
DecimalStr(m) == <<m \div 1000, (m % 1000) \div 10>>

\* Decimal(text) of such a text.
ParseDecimal(s) == s[1] * 1000 + s[2] * 10

\* random.uniform(9.99, 999.99): the raw draws the model uses, in mills.
RawPrices == {9995, 20004}

\* datetime.now() as a day number: the clock readings a run may see.
Clock == {2000, 2001}

\* uuid.uuid4() values.
UuidPool == {<<"uuid", k>> : k \in 1..NumCustomers}

\* The two independent runs of the generator that are compared.
Runs == {1, 2}

VARIABLES
    gpc,                    \* the position in generate_data.py (the same in both runs)
    now,                    \* each run's clock reading
    customers, products, orders, order_items, reviews,
    order_totals,           \* dict order_id -> Decimal
    order_item_id_counter,
    item_cursor,            \* index of `order` in `for order in orders` (184)
    reviewing_customers, reviewed_products,
    validation              \* the counts of the self-validation pass

gvars == <<gpc, now, customers, products, orders, order_items, reviews,
           order_totals, order_item_id_counter, item_cursor,
           reviewing_customers, reviewed_products, validation>>

VARIABLES
    csv_files,              \* data/*.csv, per table: what the loader finds there
    dry_run,                \* DRY_RUN of the current loader run
    lpc,                    \* the loader's position in main()
    step,                   \* which of the five load steps is next
    error,                  \* the exception that ended the run, if any
    conn,                   \* what the connection is open on
    memdb,                  \* the ':memory:' database of a dry run
    store,                  \* the database file at DB_PATH
    reports,                \* per mode, the integrity report of the latest run
    removed                 \* the latest run found a database file and removed it

lvars == <<csv_files, dry_run, lpc, step, error, conn, memdb, store, reports,
          removed>>

VARIABLES
    content,                \* the lines of the query batch file
    line_no,                \* the line the splitting loop is at
    queries,                \* the executable units split off so far
    current_query,          \* the lines accumulated for the next unit
    in_explain,             \* a plan-explanation block is open
    query_no,               \* the unit the execution loop is at
    log,                    \* the units executed so far, each with its outcome
    qpc                     \* the query runner's position in run_queries

qvars == <<content, line_no, queries, current_query, in_explain, query_no, log, qpc>>

vars == <<gvars, lvars, qvars>>

(***************************************************************************)
(* The generator.  random.seed(42) / Faker.seed_instance(42) make both     *)
(* runs read the same pseudo-random stream at the same positions, so every *)
(* step is taken by both runs together with ONE value for each seeded draw *)
(* (randint, choice, choices, sample, uniform).  uuid.uuid4() reads the    *)
(* operating system's entropy and datetime.now() the clock: neither is fed *)
(* by the seed, and each run gets its own value.  Columns that no modelled *)
(* relation reads (name, email, country, sku, status, rating, text) are    *)
(* left out; they are seeded draws like the ones kept.                     *)
(***************************************************************************)
customer_ids(r) == [i \in DOMAIN customers[r] |-> customers[r][i].customer_id]

product_ids(r) == [i \in DOMAIN products[r] |-> products[r][i].product_id]

\* random.sample(range(n), k): the ordered selections of positions without replacement.
Samples(n, k) ==
    {g \in [1..k -> 1..n] : \A i, j \in 1..k : i # j => g[i] # g[j]}

\* The list elements at the sampled positions.
Pick(population, positions) == [i \in DOMAIN positions |-> population[positions[i]]]

\* uuid.uuid4(): a token this run has not produced yet.
FreshUuids(r) == UuidPool \ Range(customer_ids(r))

\* The generator before its first step, the clocks aside.
GenStart ==
    /\ gpc = "customers"
    /\ customers = [r \in Runs |-> <<>>]
    /\ products = [r \in Runs |-> <<>>]
    /\ orders = [r \in Runs |-> <<>>]
    /\ order_items = [r \in Runs |-> <<>>]
    /\ reviews = [r \in Runs |-> <<>>]
    /\ order_totals = [r \in Runs |-> <<>>]
    /\ order_item_id_counter = [r \in Runs |-> 1]
    /\ item_cursor = 1
    /\ reviewing_customers = [r \in Runs |-> <<>>]
    /\ reviewed_products = [r \in Runs |-> <<>>]
    /\ validation = [r \in Runs |-> [done |-> FALSE]]

\* generate_data.py:88-102: the customer appended by one iteration.
NewCustomer(r, uuid, days) ==
    [customer_id |-> uuid, signup_date |-> now[r] - days]

\* generate_data.py:87-102, one iteration of the customer loop.
GenCustomer ==
    /\ gpc = "customers"
    /\ \E days \in 0..MaxDaysBack :
       \E uuid \in [Runs -> UuidPool] :
          /\ \A r \in Runs : uuid[r] \in FreshUuids(r)
          /\ customers' = [r \in Runs |->
                 Append(customers[r], NewCustomer(r, uuid[r], days))]
    /\ gpc' = IF Len(customers[1]) + 1 >= NumCustomers THEN "products" ELSE gpc
    /\ UNCHANGED <<now, products, orders, order_items, reviews, order_totals,
                   order_item_id_counter, item_cursor, reviewing_customers,
                   reviewed_products, validation, lvars, qvars>>

\* generate_data.py:116-135: the product appended by one iteration.
NewProduct(r, raw) ==
    [product_id |-> Len(products[r]) + 1,
     price |-> DecimalStr(QuantizeHalfUp(raw))]

\* generate_data.py:115-135, one iteration of the product loop.
GenProduct ==
    /\ gpc = "products"
    /\ \E raw \in RawPrices :
          products' = [r \in Runs |-> Append(products[r], NewProduct(r, raw))]
    /\ gpc' = IF Len(products[1]) + 1 >= NumProducts THEN "orders" ELSE gpc
    /\ UNCHANGED <<now, customers, orders, order_items, reviews, order_totals,
                   order_item_id_counter, item_cursor, reviewing_customers,
                   reviewed_products, validation, lvars, qvars>>

\* NewOrder with a freshly minted customer_id instead of one drawn from customer_ids.
NewOrder_FreshCustomer(r, ci) ==
    [order_id |-> Len(orders[r]) + 1,
     customer_id |-> <<"uuid", NumCustomers + ci>>,
     total_amount |-> DecimalStr(0)]

\* generate_data.py:152-168: the order appended by one iteration;
\* ci is the position random.choice(customer_ids) draws.
NewOrder(r, ci) ==
    [order_id |-> Len(orders[r]) + 1,
     customer_id |-> customer_ids(r)[ci],
     total_amount |-> DecimalStr(0)]

\* generate_data.py:151-168, one iteration of the order loop.
GenOrder ==
    /\ gpc = "orders"
    /\ \E ci \in 1..NumCustomers :
          orders' = [r \in Runs |-> Append(orders[r], NewOrder(r, ci))]
    /\ gpc' = IF Len(orders[1]) + 1 >= NumOrders THEN "order_items" ELSE gpc
    /\ UNCHANGED <<now, customers, products, order_items, reviews, order_totals,
                   order_item_id_counter, item_cursor, reviewing_customers,
                   reviewed_products, validation, lvars, qvars>>

\* next(p for p in products if p['product_id'] == product_id), generate_data.py:195
ProductById(r, product_id) ==
    products[r][CHOOSE i \in DOMAIN products[r] :
                   /\ products[r][i].product_id = product_id
                   /\ \A j \in 1..(i - 1) : products[r][j].product_id # product_id]

\* The items of one order numbered from 1 again, the counter ignored.
ItemsForOrder_ResetPerOrder(r, order_id, selected_products, quantity, counter) ==
    [idx \in DOMAIN selected_products |->
        [order_item_id |-> idx,
         order_id |-> order_id,
         product_id |-> selected_products[idx],
         quantity |-> quantity[idx],
         unit_price |-> DecimalStr(ParseDecimal(
                            ProductById(r, selected_products[idx]).price))]]

\* generate_data.py:193-205: the items of one order, ids from the shared counter.
ItemsForOrder(r, order_id, selected_products, quantity, counter) ==
    [idx \in DOMAIN selected_products |->
        [order_item_id |-> counter + (idx - 1),
         order_id |-> order_id,
         product_id |-> selected_products[idx],
         quantity |-> quantity[idx],
         unit_price |-> DecimalStr(ParseDecimal(
                            ProductById(r, selected_products[idx]).price))]]

\* AddToTotal adding unit_price once, whatever the quantity.
AddToTotal_NoQuantity(totals, item) ==
    LET amount == ParseDecimal(item.unit_price)
        have == {i \in DOMAIN totals : totals[i].order_id = item.order_id}
    IN IF have = {}
       THEN Append(totals, [order_id |-> item.order_id, total |-> 0 + amount])
       ELSE [i \in DOMAIN totals |->
                IF i \in have
                THEN [totals[i] EXCEPT !.total = @ + amount]
                ELSE totals[i]]

\* generate_data.py:208-210: one `order_totals[order_id] += unit_price * quantity`.
AddToTotal(totals, item) ==
    LET amount == ParseDecimal(item.unit_price) * item.quantity
        have == {i \in DOMAIN totals : totals[i].order_id = item.order_id}
    IN IF have = {}
       THEN Append(totals, [order_id |-> item.order_id, total |-> 0 + amount])
       ELSE [i \in DOMAIN totals |->
                IF i \in have
                THEN [totals[i] EXCEPT !.total = @ + amount]
                ELSE totals[i]]

RECURSIVE Accumulate(_, _, _)
\* generate_data.py:192-210: the totals after the items from position i on.
Accumulate(totals, items, i) ==
    IF i > Len(items) THEN totals
    ELSE Accumulate(AddToTotal(totals, items[i]), items, i + 1)

\* `order_id in order_totals`
HasTotal(totals, order_id) == \E i \in DOMAIN totals : totals[i].order_id = order_id

\* `order_totals[order_id]`
TotalOf(totals, order_id) ==
    totals[CHOOSE i \in DOMAIN totals : totals[i].order_id = order_id].total

\* generate_data.py:184-212, one iteration of the loop over orders.
GenOrderItems ==
    /\ gpc = "order_items"
    /\ \E num_items \in 1..MaxItemsPerOrder :
       \E positions \in Samples(NumProducts, Min(num_items, NumProducts)) :
       \E quantity \in [DOMAIN positions -> 1..MaxQuantity] :
          LET items_for_order(r) ==
                  ItemsForOrder(r, orders[r][item_cursor].order_id,
                                Pick(product_ids(r), positions), quantity,
                                order_item_id_counter[r])
          IN /\ order_items' = [r \in Runs |-> order_items[r] \o items_for_order(r)]
             /\ order_item_id_counter' =
                    [r \in Runs |-> order_item_id_counter[r] + Len(items_for_order(r))]
             /\ order_totals' =
                    [r \in Runs |-> Accumulate(order_totals[r], items_for_order(r), 1)]
    /\ item_cursor' = item_cursor + 1
    /\ gpc' = IF item_cursor >= NumOrders THEN "totals" ELSE gpc
    /\ UNCHANGED <<now, customers, products, orders, reviews,
                   reviewing_customers, reviewed_products, validation, lvars, qvars>>

\* generate_data.py:217-218: the new total_amount of one order.
UpdatedTotal(order, totals) ==
    IF HasTotal(totals, order.order_id)
    THEN DecimalStr(QuantizeHalfUp(TotalOf(totals, order.order_id)))
    ELSE order.total_amount

\* generate_data.py:215-218, the whole reconciliation loop.
UpdateTotals ==
    /\ gpc = "totals"
    /\ orders' = [r \in Runs |->
           [i \in DOMAIN orders[r] |->
               [orders[r][i] EXCEPT
                   !.total_amount = UpdatedTotal(orders[r][i], order_totals[r])]]]
    /\ gpc' = "review_subsets"
    /\ UNCHANGED <<now, customers, products, order_items, reviews, order_totals,
                   order_item_id_counter, item_cursor, reviewing_customers,
                   reviewed_products, validation, lvars, qvars>>

\* generate_data.py:239-240, the two eligible subsets.
SampleReviewSubsets ==
    /\ gpc = "review_subsets"
    /\ \E cpos \in Samples(NumCustomers, Min(MaxReviewingCustomers, NumCustomers)) :
       \E ppos \in Samples(NumProducts, Min(MaxReviewedProducts, NumProducts)) :
          /\ reviewing_customers' = [r \in Runs |-> Pick(customer_ids(r), cpos)]
          /\ reviewed_products' = [r \in Runs |-> Pick(product_ids(r), ppos)]
    /\ gpc' = "reviews"
    /\ UNCHANGED <<now, customers, products, orders, order_items, reviews,
                   order_totals, order_item_id_counter, item_cursor, validation,
                   lvars, qvars>>

\* generate_data.py:243-258: the review appended by one iteration; pi and ci are
\* the positions the two random.choice calls draw.
NewReview(r, pi, ci) ==
    [review_id |-> Len(reviews[r]) + 1,
     product_id |-> reviewed_products[r][pi],
     customer_id |-> reviewing_customers[r][ci]]

\* generate_data.py:242-258, one iteration of the review loop.
GenReview ==
    /\ gpc = "reviews"
    /\ \E pi \in DOMAIN reviewed_products[1], ci \in DOMAIN reviewing_customers[1] :
          reviews' = [r \in Runs |-> Append(reviews[r], NewReview(r, pi, ci))]
    /\ gpc' = IF Len(reviews[1]) + 1 >= NumReviews THEN "validate" ELSE gpc
    /\ UNCHANGED <<now, customers, products, orders, order_items, order_totals,
                   order_item_id_counter, item_cursor, reviewing_customers,
                   reviewed_products, validation, lvars, qvars>>

\* sum(1 for x in rows if x[field] not in id_set), generate_data.py:275-289
InvalidRefs(rows, field, id_set) ==
    Cardinality({i \in DOMAIN rows : rows[i][field] \notin id_set})

RECURSIVE SumItems(_, _, _)
\* sum(Decimal(quantity) * Decimal(unit_price) for oi in order_items
\*     if oi['order_id'] == order_id), generate_data.py:299-303
SumItems(items, order_id, i) ==
    IF i > Len(items) THEN 0
    ELSE (IF items[i].order_id = order_id
          THEN items[i].quantity * ParseDecimal(items[i].unit_price)
          ELSE 0) + SumItems(items, order_id, i + 1)

\* generate_data.py:297-306: does this order count as a mismatch?
TotalMismatch(order, items) ==
    Abs(QuantizeHalfUp(SumItems(items, order.order_id, 1))
        - ParseDecimal(order.total_amount)) > 10

\* generate_data.py:270-306: the counts of one run's self-validation.
ValidationOf(r) ==
    LET customer_id_set == {customers[r][i].customer_id : i \in DOMAIN customers[r]}
        product_id_set == {products[r][i].product_id : i \in DOMAIN products[r]}
        order_id_set == {orders[r][i].order_id : i \in DOMAIN orders[r]}
    IN [done |-> TRUE,
        invalid_customer_refs |-> InvalidRefs(orders[r], "customer_id", customer_id_set),
        invalid_order_refs |-> InvalidRefs(order_items[r], "order_id", order_id_set),
        invalid_product_refs |-> InvalidRefs(order_items[r], "product_id", product_id_set),
        invalid_review_product_refs |->
            InvalidRefs(reviews[r], "product_id", product_id_set),
        invalid_review_customer_refs |->
            InvalidRefs(reviews[r], "customer_id", customer_id_set),
        mismatches |-> Cardinality({i \in DOMAIN orders[r] :
                           TotalMismatch(orders[r][i], order_items[r])})]

\* generate_data.py:268-311, the advisory self-validation.
Validate ==
    /\ gpc = "validate"
    /\ validation' = [r \in Runs |-> ValidationOf(r)]
    /\ gpc' = "done"
    /\ UNCHANGED <<now, customers, products, orders, order_items, reviews,
                   order_totals, order_item_id_counter, item_cursor,
                   reviewing_customers, reviewed_products, lvars, qvars>>

(***************************************************************************)
(* The loader, ingest_to_sqlite.py.  Amounts are in mills as above.  A row *)
(* keeps the key columns and the amounts; the other columns play no part   *)
(* in any constraint the model checks.                                     *)
(***************************************************************************)
\* Loading order_items before orders.
TableNames_ItemsBeforeOrders ==
    <<"customers", "products", "order_items", "orders", "reviews">>

\* The tables in the order main() loads them, ingest_to_sqlite.py:316-334.
TableNames == <<"customers", "products", "orders", "order_items", "reviews">>

\* The expected_columns arguments of main(), ingest_to_sqlite.py:317-334.
ExpectedColumns(t) ==
    CASE t = "customers" ->
           {"customer_id", "name", "email", "signup_date", "country", "is_premium"}
      [] t = "products" ->
           {"product_id", "sku", "name", "category", "price", "cost", "created_at"}
      [] t = "orders" ->
           {"order_id", "customer_id", "order_date", "status", "total_amount",
            "shipping_country"}
      [] t = "order_items" ->
           {"order_item_id", "order_id", "product_id", "quantity", "unit_price"}
      [] t = "reviews" ->
           {"review_id", "product_id", "customer_id", "rating", "review_text",
            "created_at"}

\* PRIMARY KEY of each table, ingest_to_sqlite.py:40-91.
PrimaryKey(t) ==
    CASE t = "customers" -> "customer_id"
      [] t = "products" -> "product_id"
      [] t = "orders" -> "order_id"
      [] t = "order_items" -> "order_item_id"
      [] t = "reviews" -> "review_id"

\* FOREIGN KEY declarations, ingest_to_sqlite.py:71-98.
ForeignKeys(t) ==
    CASE t = "orders" ->
           {[col |-> "customer_id", parent |-> "customers", key |-> "customer_id"]}
      [] t = "order_items" ->
           {[col |-> "order_id", parent |-> "orders", key |-> "order_id"],
            [col |-> "product_id", parent |-> "products", key |-> "product_id"]}
      [] t = "reviews" ->
           {[col |-> "product_id", parent |-> "products", key |-> "product_id"],
            [col |-> "customer_id", parent |-> "customers", key |-> "customer_id"]}
      [] OTHER -> {}

\* Input values: ids, totals and prices (in mills) the input files may hold.
CustomerIds == {"c1"}

ProductIds == {1}

TotalChoices == {50000, 50010, 99990}

PriceChoices == {25000}

\* The rows an input file of a table may hold.
CsvRows(t) ==
    CASE t = "customers" -> [customer_id : CustomerIds]
      [] t = "products" -> [product_id : ProductIds]
      [] t = "orders" ->
           [order_id : 1..MaxCsvRows, customer_id : CustomerIds,
            total_amount : TotalChoices]
      [] t = "order_items" ->
           [order_item_id : 1..MaxCsvRows, order_id : 1..MaxCsvRows,
            product_id : ProductIds, quantity : 1..MaxQuantity,
            unit_price : PriceChoices]
      [] t = "reviews" ->
           [review_id : {1}, product_id : ProductIds, customer_id : CustomerIds]

RECURSIVE UpTo(_, _)
\* The subsets of R with at most k elements.
UpTo(R, k) ==
    IF k = 0 THEN {{}}
    ELSE LET smaller == UpTo(R, k - 1)
         IN smaller \cup {S \cup {x} : S \in smaller, x \in R}

\* A column the header may lack, and a column it may have too many.
DroppedColumn(t) ==
    CASE t = "customers" -> "is_premium"
      [] t = "products" -> "created_at"
      [] t = "orders" -> "shipping_country"
      [] t = "order_items" -> "unit_price"
      [] t = "reviews" -> "created_at"

CsvHeaders(t) ==
    {ExpectedColumns(t),
     ExpectedColumns(t) \ {DroppedColumn(t)},
     ExpectedColumns(t) \cup {"notes"}}

\* data/<t>.csv before the loader has looked at it.
Unread == [read |-> FALSE, exists |-> FALSE, header |-> {}, rows |-> {}]

\* What the loader may find at data/<t>.csv: no file, or a header and rows.
FileChoices(t) ==
    {[read |-> TRUE, exists |-> FALSE, header |-> {}, rows |-> {}]}
    \cup {[read |-> TRUE, exists |-> TRUE, header |-> ExpectedColumns(t), rows |-> R] :
             R \in UpTo(CsvRows(t), MaxCsvRows)}
    \cup {[read |-> TRUE, exists |-> TRUE, header |-> h, rows |-> R] :
             h \in CsvHeaders(t) \ {ExpectedColumns(t)}, R \in UpTo(CsvRows(t), 1)}

EmptyTables == [t \in Range(TableNames) |-> {}]

\* A database that has no schema yet (for DB_PATH: no file).
NoDb == [exists |-> FALSE, tables |-> EmptyTables, other |-> {}]

\* A database file left at DB_PATH by earlier use: a customer that is in no
\* input file, and a table that is not of the schema.
StaleDb ==
    [exists |-> TRUE,
     tables |-> [EmptyTables EXCEPT !["customers"] = {[customer_id |-> "c0"]}],
     other |-> {"legacy"}]

\* What DB_PATH may hold before the loader's first run.
PriorStores == {NoDb, StaleDb}

NoReport == [done |-> FALSE, row_counts |-> <<>>, violations |-> <<>>,
             mismatch_count |-> 0, fix_count |-> 0]

Mode(dry) == IF dry THEN "dry" ELSE "real"

\* The loader before its first run, whatever DB_PATH holds.
LoadIdle ==
    /\ csv_files = [t \in Range(TableNames) |-> Unread]
    /\ dry_run = FALSE
    /\ lpc = "idle"
    /\ step = 1
    /\ error = "none"
    /\ conn = "none"
    /\ memdb = NoDb
    /\ reports = [m \in {"dry", "real"} |-> NoReport]
    /\ removed = FALSE

\* The loader before its first run, no database file at DB_PATH.
LoadStart ==
    /\ LoadIdle
    /\ store = NoDb

\* Connecting a dry run to DB_PATH like a real run.
ConnTarget_AlwaysDisk(dry) == "disk"

\* ingest_to_sqlite.py:297-304: what the connection is opened on.
ConnTarget(dry) == IF dry THEN "memory" ELSE "disk"

\* The database the connection is open on.
ConnDb == IF conn = "memory" THEN memdb ELSE store

\* A run that opens the database file it finds instead of removing it.
Connect_KeepFile ==
    /\ lpc \in {"idle", "done", "aborted"}
    /\ \E dry \in BOOLEAN :
          /\ dry_run' = dry
          /\ conn' = ConnTarget(dry)
          /\ store' = store
          /\ removed' = (~dry /\ store.exists)
          /\ reports' = [reports EXCEPT ![Mode(dry)] = NoReport]
    /\ memdb' = NoDb
    /\ lpc' = "schema"
    /\ step' = 1
    /\ error' = "none"
    /\ UNCHANGED <<csv_files, gvars, qvars>>

\* ingest_to_sqlite.py:292-304: a run of the script starts, with or without
\* --dry-run; a real run removes the database file first.
Connect ==
    /\ lpc \in {"idle", "done", "aborted"}
    /\ \E dry \in BOOLEAN :
          /\ dry_run' = dry
          /\ conn' = ConnTarget(dry)
          /\ store' = IF dry THEN store ELSE NoDb
          /\ removed' = (~dry /\ store.exists)
          /\ reports' = [reports EXCEPT ![Mode(dry)] = NoReport]
    /\ memdb' = NoDb
    /\ lpc' = "schema"
    /\ step' = 1
    /\ error' = "none"
    /\ UNCHANGED <<csv_files, gvars, qvars>>

\* ingest_to_sqlite.py:29-100: DROP TABLE IF EXISTS unless DRY_RUN, then
\* CREATE TABLE IF NOT EXISTS.
SchemaOn(db, dry) ==
    IF dry /\ db.exists
    THEN db
    ELSE [exists |-> TRUE, tables |-> EmptyTables, other |-> db.other]

\* ingest_to_sqlite.py:308-311, create_schema on the connection.
CreateSchema ==
    /\ lpc = "schema"
    /\ IF conn = "memory"
       THEN memdb' = SchemaOn(memdb, dry_run) /\ UNCHANGED store
       ELSE store' = SchemaOn(store, dry_run) /\ UNCHANGED memdb
    /\ lpc' = "load"
    /\ UNCHANGED <<csv_files, dry_run, step, error, conn, reports, removed,
                   gvars, qvars>>

\* Accepting a header that has every expected column, extra ones or not.
ColumnsMatch_IgnoreExtra(actual_columns, expected_set) ==
    expected_set \subseteq actual_columns

\* ingest_to_sqlite.py:127-135: no ValueError is raised.
ColumnsMatch(actual_columns, expected_set) == actual_columns = expected_set

\* cursor.executemany(insert_sql, rows) fails: PRIMARY KEY, or FOREIGN KEY under
\* PRAGMA foreign_keys = ON (ingest_to_sqlite.py:27, 308).
InsertFails(tables, t, rows) ==
    \/ \E r1, r2 \in rows \cup tables[t] :
          r1 # r2 /\ r1[PrimaryKey(t)] = r2[PrimaryKey(t)]
    \/ \E r \in rows, fk \in ForeignKeys(t) :
          r[fk.col] \notin {p[fk.key] : p \in tables[fk.parent]}

\* ingest_to_sqlite.py:115-152, load_csv_to_table: the exception it raises, if
\* any, and the committed tables after it.  The rows of an executemany that fails
\* are not committed; main() rolls them back (346).
LoadCsvToTable(tables, file, table_name, dry) ==
    IF ~file.exists
    THEN [error |-> "FileNotFoundError", tables |-> tables]
    ELSE IF ~ColumnsMatch(file.header, ExpectedColumns(table_name))
    THEN [error |-> "ValueError", tables |-> tables]
    ELSE IF dry
    THEN [error |-> "none", tables |-> tables]
    ELSE IF InsertFails(tables, table_name, file.rows)
    THEN [error |-> "IntegrityError", tables |-> tables]
    ELSE [error |-> "none",
          tables |-> [tables EXCEPT ![table_name] = @ \cup file.rows]]

\* ingest_to_sqlite.py:316-334 and 344-349: one load step of main(); an
\* exception unwinds the run (rollback, close, re-raise).
LoadStep ==
    /\ lpc = "load"
    /\ LET t == TableNames[step] IN
       \E file \in IF csv_files[t].read THEN {csv_files[t]} ELSE FileChoices(t) :
          LET out == LoadCsvToTable(ConnDb.tables, file, t, dry_run) IN
          /\ csv_files' = [csv_files EXCEPT ![t] = file]
          /\ error' = out.error
          /\ IF out.error # "none"
             THEN /\ lpc' = "aborted"
                  /\ conn' = "none"
                  /\ memdb' = NoDb
                  /\ UNCHANGED <<store, step>>
             ELSE /\ IF conn = "memory"
                     THEN memdb' = [memdb EXCEPT !.tables = out.tables]
                          /\ UNCHANGED store
                     ELSE store' = [store EXCEPT !.tables = out.tables]
                          /\ UNCHANGED memdb
                  /\ IF step < Len(TableNames)
                     THEN step' = step + 1 /\ UNCHANGED lpc
                     ELSE lpc' = "report" /\ UNCHANGED step
                  /\ UNCHANGED conn
    /\ UNCHANGED <<dry_run, reports, removed, gvars, qvars>>

\* 0.01 in mills, ingest_to_sqlite.py:167.
Tolerance == 10

\* SQLite keeps total_amount as a binary double.  For the model's amounts that
\* lie exactly 0.01 from the item sum, these are the (total, sum) pairs whose
\* binary difference is above the binary 0.01:
\*   |99.99 - 100| = 0.010000000000005116, but 50.01 - 50 = 0.009999999999998.
AboveInBinary == {<<99990, 100000>>}

\* HAVING ABS(o.total_amount - COALESCE(SUM(...), 0)) > 0.01, ingest_to_sqlite.py:167.
ExceedsTolerance(current_total, calculated_total) ==
    LET d == Abs(current_total - calculated_total)
    IN d > Tolerance \/ (d = Tolerance /\ <<current_total, calculated_total>> \in AboveInBinary)

RECURSIVE SumRows(_)
\* SUM(oi.quantity * oi.unit_price) over joined rows, 0 for none (COALESCE).
SumRows(items) ==
    IF items = {} THEN 0
    ELSE LET oi == CHOOSE x \in items : TRUE
         IN oi.quantity * oi.unit_price + SumRows(items \ {oi})

\* ingest_to_sqlite.py:163-165: calculated_total of one order (LEFT JOIN).
CalculatedTotal(tables, order_id) ==
    SumRows({oi \in tables["order_items"] : oi.order_id = order_id})

\* ingest_to_sqlite.py:159-170: the rows of the mismatch query.
Mismatches(tables) ==
    {o \in tables["orders"] :
        ExceedsTolerance(o.total_amount, CalculatedTotal(tables, o.order_id))}

\* ROUND(?, 2) of an amount >= 0, ingest_to_sqlite.py:177.
SqlRound2(m) == ((m + 5) \div 10) * 10

\* ingest_to_sqlite.py:154-183, fix_order_totals: (len(mismatches), fix_count)
\* and the tables after it.
FixOrderTotals(tables, dry) ==
    LET mismatches == Mismatches(tables)
        fix == mismatches # {} /\ ~dry
        fixed(o) == IF \E m \in mismatches : m.order_id = o.order_id
                    THEN [o EXCEPT !.total_amount =
                             SqlRound2(CalculatedTotal(tables, o.order_id))]
                    ELSE o
    IN [mismatch_count |-> Cardinality(mismatches),
        fix_count |-> IF fix THEN Cardinality(mismatches) ELSE 0,
        tables |-> IF fix
                   THEN [tables EXCEPT !["orders"] = {fixed(o) : o \in @}]
                   ELSE tables]

\* SELECT COUNT(*) FROM child LEFT JOIN parent ... WHERE parent key IS NULL.
Dangling(tables, child, fk) ==
    Cardinality({r \in tables[child] :
                    r[fk.col] \notin {p[fk.key] : p \in tables[fk.parent]}})

Positive(pair) == pair[2] > 0

\* The five checks in the order validate_foreign_keys makes them.
FkChecks ==
    <<[name |-> "orders.customer_id", child |-> "orders",
       fk |-> [col |-> "customer_id", parent |-> "customers", key |-> "customer_id"]],
      [name |-> "order_items.order_id", child |-> "order_items",
       fk |-> [col |-> "order_id", parent |-> "orders", key |-> "order_id"]],
      [name |-> "order_items.product_id", child |-> "order_items",
       fk |-> [col |-> "product_id", parent |-> "products", key |-> "product_id"]],
      [name |-> "reviews.product_id", child |-> "reviews",
       fk |-> [col |-> "product_id", parent |-> "products", key |-> "product_id"]],
      [name |-> "reviews.customer_id", child |-> "reviews",
       fk |-> [col |-> "customer_id", parent |-> "customers", key |-> "customer_id"]]>>

\* ingest_to_sqlite.py:185-241, validate_foreign_keys: the (column, count)
\* pairs with a count above zero.
ValidateForeignKeys(tables) ==
    SelectSeq([i \in DOMAIN FkChecks |->
                  <<FkChecks[i].name, Dangling(tables, FkChecks[i].child, FkChecks[i].fk)>>],
              Positive)

\* ingest_to_sqlite.py:243-288, generate_integrity_report, then 339-349: the run
\* ends and the connection is closed.
Report ==
    /\ lpc = "report"
    /\ LET tables == ConnDb.tables
           fixes == FixOrderTotals(tables, dry_run)
       IN /\ reports' = [reports EXCEPT ![Mode(dry_run)] =
                 [done |-> TRUE,
                  row_counts |-> [i \in DOMAIN TableNames |->
                                     Cardinality(tables[TableNames[i]])],
                  violations |-> ValidateForeignKeys(tables),
                  mismatch_count |-> fixes.mismatch_count,
                  fix_count |-> fixes.fix_count]]
          /\ IF conn = "memory"
             THEN UNCHANGED store
             ELSE store' = [store EXCEPT !.tables = fixes.tables]
    /\ memdb' = NoDb
    /\ lpc' = "done"
    /\ conn' = "none"
    /\ UNCHANGED <<csv_files, dry_run, step, error, removed, gvars, qvars>>

(***************************************************************************)
(* The query runner, run_queries.py.  A line of the batch is a sequence of *)
(* tokens: " " is white space, "--" the comment marker, ";" the statement  *)
(* terminator; the other tokens are words of SQL or of a comment.          *)
(***************************************************************************)
RECURSIVE LStrip(_)
\* the line without its leading white space
LStrip(line) ==
    IF line # <<>> /\ Head(line) = " " THEN LStrip(Tail(line)) ELSE line

RECURSIVE RStrip(_)
\* line.rstrip()
RStrip(line) ==
    IF line # <<>> /\ line[Len(line)] = " "
    THEN RStrip(SubSeq(line, 1, Len(line) - 1))
    ELSE line

\* line.strip()
Strip(line) == LStrip(RStrip(line))

\* str.upper() of a token
Upper(token) ==
    IF token = "explain query plan" THEN "EXPLAIN QUERY PLAN" ELSE token

\* `word in text`
Contains(line, word) == \E i \in DOMAIN line : line[i] = word

\* stripped.startswith('--')
StartsWithComment(stripped) == stripped # <<>> /\ Head(stripped) = "--"

\* 'EXPLAIN QUERY PLAN' in line.upper(), run_queries.py:37
IsExplainLine(line) ==
    Contains([i \in DOMAIN line |-> Upper(line[i])], "EXPLAIN QUERY PLAN")

\* line.rstrip().endswith(';'), run_queries.py:44
EndsWithSemicolon(line) ==
    RStrip(line) # <<>> /\ RStrip(line)[Len(RStrip(line))] = ";"

\* '\n'.join(current_query).strip(): the unit's lines, white space trimmed at
\* both ends of the text.
JoinStrip(lines) ==
    IF \A i \in DOMAIN lines : Strip(lines[i]) = <<>>
    THEN <<>>
    ELSE LET first == CHOOSE i \in DOMAIN lines :
                         /\ Strip(lines[i]) # <<>>
                         /\ \A j \in 1..(i - 1) : Strip(lines[j]) = <<>>
             last == CHOOSE i \in DOMAIN lines :
                         /\ Strip(lines[i]) # <<>>
                         /\ \A j \in (i + 1)..Len(lines) : Strip(lines[j]) = <<>>
         IN [i \in 1..(last - first + 1) |->
                LET l == lines[first + i - 1]
                    l1 == IF i = 1 THEN LStrip(l) ELSE l
                IN IF first + i - 1 = last THEN RStrip(l1) ELSE l1]

\* The lines a batch file is made of.
BatchLines ==
    {<<" ">>,
     <<"--", " ", "Query">>,
     <<"--", " ", "note">>,
     <<"EXPLAIN QUERY PLAN">>,
     <<"explain query plan", " ", "SELECT 3", ";">>,
     <<"SELECT 1", ";">>,
     <<" ", "SELECT 2", ";", " ">>,
     <<"SELECT 3">>,
     <<";">>}

RECURSIVE SeqsUpTo(_, _)
\* The sequences over S of length at most n.
SeqsUpTo(S, n) ==
    IF n = 0 THEN {<<>>}
    ELSE LET shorter == SeqsUpTo(S, n - 1)
         IN shorter \cup {Append(q, x) : q \in shorter, x \in S}

\* content.split('\n') of the batch files the model runs on.
Batches == SeqsUpTo(BatchLines, MaxBatchLines)

\* The query runner before it is started.
QueryStart ==
    /\ content = <<>>
    /\ line_no = 1
    /\ queries = <<>>
    /\ current_query = <<>>
    /\ in_explain = FALSE
    /\ query_no = 1
    /\ log = <<>>
    /\ qpc = "idle"

\* The loop body passing over a comment that contains 'Query' like over any
\* other comment.
SplitStep_NoSectionFlush(line, qs, cur, inx) ==
    LET stripped == Strip(line) IN
    IF stripped = <<>> \/ StartsWithComment(stripped)
    THEN [queries |-> qs, current_query |-> cur, in_explain |-> inx]
    ELSE IF IsExplainLine(line)
    THEN [queries |-> qs, current_query |-> cur, in_explain |-> TRUE]
    ELSE IF EndsWithSemicolon(line) /\ ~inx
    THEN LET query_text == JoinStrip(Append(cur, line))
         IN IF query_text # <<>>
            THEN [queries |-> Append(qs, query_text),
                  current_query |-> <<>>, in_explain |-> FALSE]
            ELSE [queries |-> qs,
                  current_query |-> Append(cur, line), in_explain |-> FALSE]
    ELSE [queries |-> qs, current_query |-> Append(cur, line), in_explain |-> inx]

\* run_queries.py:25-49: the body of the splitting loop for one line; the
\* new queries, current_query and in_explain.
SplitStep(line, qs, cur, inx) ==
    LET stripped == Strip(line) IN
    IF stripped = <<>> \/ StartsWithComment(stripped)
    THEN IF StartsWithComment(stripped) /\ Contains(stripped, "Query") /\ cur # <<>>
         THEN [queries |-> Append(qs, cur), current_query |-> <<>>, in_explain |-> inx]
         ELSE [queries |-> qs, current_query |-> cur, in_explain |-> inx]
    ELSE IF IsExplainLine(line)
    THEN [queries |-> qs, current_query |-> cur, in_explain |-> TRUE]
    ELSE IF EndsWithSemicolon(line) /\ ~inx
    THEN LET query_text == JoinStrip(Append(cur, line))
         IN IF query_text # <<>>
            THEN [queries |-> Append(qs, query_text),
                  current_query |-> <<>>, in_explain |-> FALSE]
            ELSE [queries |-> qs,
                  current_query |-> Append(cur, line), in_explain |-> FALSE]
    ELSE [queries |-> qs, current_query |-> Append(cur, line), in_explain |-> inx]

\* run_queries.py:24-49, one iteration of `for line in content.split('\n')`.
SplitLine ==
    /\ qpc = "split"
    /\ line_no <= Len(content)
    /\ LET new == SplitStep(content[line_no], queries, current_query, in_explain)
       IN /\ queries' = new.queries
          /\ current_query' = new.current_query
          /\ in_explain' = new.in_explain
    /\ line_no' = line_no + 1
    /\ UNCHANGED <<content, query_no, log, qpc, gvars, lvars>>

\* run_queries.py:51-53: after the loop, what is left becomes the last unit.
FlushRemaining ==
    /\ qpc = "split"
    /\ line_no > Len(content)
    /\ queries' = IF current_query # <<>>
                  THEN Append(queries, current_query)
                  ELSE queries
    /\ qpc' = "execute"
    /\ UNCHANGED <<content, line_no, current_query, in_explain, query_no, log, gvars, lvars>>

RECURSIVE RStripSemicolons(_)
\* line.rstrip(';')
RStripSemicolons(line) ==
    IF line # <<>> /\ line[Len(line)] = ";"
    THEN RStripSemicolons(SubSeq(line, 1, Len(line) - 1))
    ELSE line

\* run_queries.py:57-59: the unit's text stripped, and its trailing
\* terminators removed when it ends with one.
TrimUnit(unit) ==
    LET query == JoinStrip(unit) IN
    IF query = <<>> THEN <<>>
    ELSE IF query[Len(query)][Len(query[Len(query)])] = ";"
    THEN [query EXCEPT ![Len(query)] = RStripSemicolons(@)]
    ELSE query

\* `not query`: the text has no character.
IsEmptyText(query) == query = <<>> \/ query = <<<<>>>>

\* What cursor.execute and fetchall end in: the rows are displayed, or
\* sqlite3.Error is raised.
Outcomes == {"ok", "error"}

\* The run stopping at the first unit that fails.
AfterExecute_AbortOnError(outcome) ==
    IF outcome = "error" THEN "done" ELSE "execute"

\* run_queries.py:64-94: the try block displays the rows, the except block
\* prints the error; either way the loop goes on.
AfterExecute(outcome) == "execute"

\* run_queries.py:56-94, one iteration of `for i, query in enumerate(queries, 1)`.
ExecuteUnit ==
    /\ qpc = "execute"
    /\ query_no <= Len(queries)
    /\ LET query == TrimUnit(queries[query_no]) IN
       IF IsEmptyText(query)
       THEN UNCHANGED <<log, qpc>>
       ELSE \E outcome \in Outcomes :
               /\ log' = Append(log, [i |-> query_no, query |-> query,
                                      outcome |-> outcome])
               /\ qpc' = AfterExecute(outcome)
    /\ query_no' = query_no + 1
    /\ UNCHANGED <<content, line_no, queries, current_query, in_explain, gvars, lvars>>

\* run_queries.py:96, conn.close() after the last unit.
CloseConn ==
    /\ qpc = "execute"
    /\ query_no > Len(queries)
    /\ qpc' = "done"
    /\ UNCHANGED <<content, line_no, queries, current_query, in_explain,
                   query_no, log, gvars, lvars>>

(***************************************************************************)
(* Specifications.                                                         *)
(***************************************************************************)
InitGen ==
    /\ GenStart
    /\ now \in {n \in [Runs -> Clock] : n[1] <= n[2]}
    /\ LoadStart
    /\ QueryStart

NextGen ==
    \/ GenCustomer
    \/ GenProduct
    \/ GenOrder
    \/ GenOrderItems
    \/ UpdateTotals
    \/ SampleReviewSubsets
    \/ GenReview
    \/ Validate

SpecGen == InitGen /\ [][NextGen]_vars

InitLoad ==
    /\ GenStart
    /\ now = [r \in Runs |-> 2000]
    /\ LoadIdle
    /\ store \in PriorStores
    /\ QueryStart

NextLoad ==
    \/ Connect
    \/ CreateSchema
    \/ LoadStep
    \/ Report

SpecLoad == InitLoad /\ [][NextLoad]_vars

InitQuery ==
    /\ GenStart
    /\ now = [r \in Runs |-> 2000]
    /\ LoadStart
    /\ content \in Batches
    /\ line_no = 1
    /\ queries = <<>>
    /\ current_query = <<>>
    /\ in_explain = FALSE
    /\ query_no = 1
    /\ log = <<>>
    /\ qpc = "split"

NextQuery ==
    \/ SplitLine
    \/ FlushRemaining
    \/ ExecuteUnit
    \/ CloseConn

SpecQuery == InitQuery /\ [][NextQuery]_vars

(***************************************************************************)
(* Properties of the generator.                                            *)
(***************************************************************************)
\* The five output collections of a run.
Output(r) == <<customers[r], products[r], orders[r], order_items[r], reviews[r]>>

ItemsOf(r, order_id) ==
    {i \in DOMAIN order_items[r] : order_items[r][i].order_id = order_id}

Reconciled == gpc \in {"review_subsets", "reviews", "validate", "done"}

\* C1: two runs with the same seed produce identical output collections for all
\* five entities, customer ids and timestamps included.
Claim_C1_SameSeedSameOutput ==
    gpc = "done" => Output(1) = Output(2)

\* C2: after the reconciliation pass every order's total_amount is the sum of
\* quantity x unit_price over exactly its own items, rounded half-up to two places;
\* an order without items keeps 0.00 and an order with items never has 0.00; the
\* self-validation then counts no mismatch.
Thm_C2_TotalsReconciled ==
    \A r \in Runs :
      /\ Reconciled =>
           \A i \in DOMAIN orders[r] :
              LET o == orders[r][i] IN
              /\ o.total_amount =
                     DecimalStr(QuantizeHalfUp(SumItems(order_items[r], o.order_id, 1)))
              /\ ItemsOf(r, o.order_id) = {} => o.total_amount = <<0, 0>>
              /\ ItemsOf(r, o.order_id) # {} => o.total_amount # <<0, 0>>
      /\ validation[r].done => validation[r].mismatches = 0

\* An order with two items, 1 x 10.00 and 2 x 20.00, reconciled to 50.00.
Wit_C2_TwoItemOrder ==
    /\ gpc = "done"
    /\ \E i \in DOMAIN orders[1] :
          /\ Cardinality(ItemsOf(1, orders[1][i].order_id)) = 2
          /\ orders[1][i].total_amount = <<50, 0>>
          /\ \E j \in ItemsOf(1, orders[1][i].order_id) :
                /\ order_items[1][j].quantity = 2
                /\ order_items[1][j].unit_price = <<20, 0>>

CustomerIdSet(r) == {customers[r][i].customer_id : i \in DOMAIN customers[r]}

ProductIdSet(r) == {products[r][i].product_id : i \in DOMAIN products[r]}

OrderIdSet(r) == {orders[r][i].order_id : i \in DOMAIN orders[r]}

\* Some order of this customer has an item of this product.
Ordered(r, product_id, customer_id) ==
    \E i \in DOMAIN orders[r], j \in DOMAIN order_items[r] :
       /\ orders[r][i].customer_id = customer_id
       /\ order_items[r][j].order_id = orders[r][i].order_id
       /\ order_items[r][j].product_id = product_id

\* C3: at the end of generation every foreign key of every order, order item and
\* review names a generated row, and the self-validation counts zero violations.
Thm_C3_ReferentialIntegrity ==
    gpc = "done" =>
      \A r \in Runs :
        /\ \A i \in DOMAIN orders[r] : orders[r][i].customer_id \in CustomerIdSet(r)
        /\ \A i \in DOMAIN order_items[r] :
              /\ order_items[r][i].order_id \in OrderIdSet(r)
              /\ order_items[r][i].product_id \in ProductIdSet(r)
        /\ \A i \in DOMAIN reviews[r] :
              /\ reviews[r][i].product_id \in ProductIdSet(r)
              /\ reviews[r][i].customer_id \in CustomerIdSet(r)
        /\ validation[r].invalid_customer_refs = 0
        /\ validation[r].invalid_order_refs = 0
        /\ validation[r].invalid_product_refs = 0
        /\ validation[r].invalid_review_product_refs = 0
        /\ validation[r].invalid_review_customer_refs = 0

\* A finished run with a review whose (product, customer) pair is in no order.
Wit_C3_ReviewWithoutOrder ==
    /\ gpc = "done"
    /\ \E i \in DOMAIN reviews[1] :
          ~Ordered(1, reviews[1][i].product_id, reviews[1][i].customer_id)


\* C14: all through the generation the k-th order item generated has id k, so
\* the ids are pairwise distinct, increase by one from item to item across
\* order boundaries, and make up 1..M for the M items generated; the shared
\* counter is always one past the last id given out.
Thm_C14_ItemIdsDense ==
    \A r \in Runs :
       /\ \A k \in DOMAIN order_items[r] : order_items[r][k].order_item_id = k
       /\ order_item_id_counter[r] = Len(order_items[r]) + 1

\* The generation has ended with two orders of two items each: the ids 3 and 4
\* belong to another order than the ids 1 and 2.
Wit_C14_IdsAcrossOrders ==
    /\ gpc = "done"
    /\ Len(order_items[1]) = 4
    /\ order_items[1][1].order_id = order_items[1][2].order_id
    /\ order_items[1][3].order_id = order_items[1][4].order_id
    /\ order_items[1][2].order_id # order_items[1][3].order_id
    /\ order_items[1][3].order_item_id = 3

(***************************************************************************)
(* Properties of the loader.                                               *)
(***************************************************************************)
\* The rows of the input files read so far, per table.
InputTables == [t \in Range(TableNames) |-> csv_files[t].rows]

\* The input file of table t was read and its header is not the expected one.
BadHeader(t) ==
    /\ csv_files[t].read
    /\ csv_files[t].exists
    /\ csv_files[t].header # ExpectedColumns(t)

\* Some input file read so far is missing, has a wrong header, or repeats a key.
FatalInput ==
    \E t \in Range(TableNames) :
       /\ csv_files[t].read
       /\ \/ ~csv_files[t].exists
          \/ BadHeader(t)
          \/ \E r1, r2 \in csv_files[t].rows :
                r1 # r2 /\ r1[PrimaryKey(t)] = r2[PrimaryKey(t)]

\* The input orders whose total is more than 0.01 away from their items' sum.
DriftedOrders ==
    {o \in InputTables["orders"] :
        Abs(o.total_amount - SumRows({oi \in InputTables["order_items"] :
                                         oi.order_id = o.order_id})) > Tolerance}

\* C4: a real run that aborts at a load step leaves no rows of the tables its
\* earlier steps loaded in the database file.
Claim_C4_NoPartialStore ==
    (lpc = "aborted" /\ ~dry_run) =>
        \A t \in Range(TableNames) : store.tables[t] = {}

\* C5: after a real run, the mismatches reported are exactly the orders more than
\* 0.01 away from the sum of their items, each of them is overwritten with the
\* rounded sum and counted as a fix, and every other order keeps its total.
Claim_C5_FixesExactlyTheDrifted ==
    (lpc = "done" /\ ~dry_run) =>
        /\ reports["real"].mismatch_count = Cardinality(DriftedOrders)
        /\ reports["real"].fix_count = Cardinality(DriftedOrders)
        /\ store.tables["orders"] =
              {IF o \in DriftedOrders
               THEN [o EXCEPT !.total_amount =
                        SqlRound2(SumRows({oi \in InputTables["order_items"] :
                                              oi.order_id = o.order_id}))]
               ELSE o : o \in InputTables["orders"]}

\* C6: input whose only defect is a foreign key without a parent row does not
\* abort the run; the run ends with a report that lists the violation counts.
Claim_C6_ViolationsReportedNotFatal ==
    (/\ lpc \in {"aborted", "done"}
     /\ ~FatalInput
     /\ ValidateForeignKeys(InputTables) # <<>>) =>
        /\ lpc = "done"
        /\ reports[Mode(dry_run)].violations = ValidateForeignKeys(InputTables)

\* C7: on the same input a dry run reports the mismatch count and the
\* foreign-key violation counts that a real run finds.
Claim_C7_DryRunReportsTheSame ==
    (reports["dry"].done /\ reports["real"].done) =>
        /\ reports["dry"].mismatch_count = reports["real"].mismatch_count
        /\ reports["dry"].violations = reports["real"].violations

\* C8: no step of a dry run changes the database file (removes it, creates it,
\* drops a table, inserts a row, updates a total), and a dry run counts no fix.
Thm_C8_DryRunLeavesStore ==
    /\ [][dry_run' => store' = store]_vars
    /\ [](lpc = "done" /\ dry_run => reports["dry"].fix_count = 0)

\* A dry run has ended on drifted input next to a database file that holds orders.
Wit_C8_DryRunBesideLoadedStore ==
    /\ lpc = "done"
    /\ dry_run
    /\ DriftedOrders # {}
    /\ store.exists
    /\ store.tables["orders"] # {}

\* C9: once the input file of a table is found with a header that is not exactly
\* the expected one, the run that reads it ends there with a ValueError, no run
\* gets past that step, and no run inserts a row into the table or into a later
\* table: they hold no row in the database a real run writes, nor in the one a
\* dry run opens.
Thm_C9_HeaderCheckedFirst ==
    \A k \in DOMAIN TableNames :
       BadHeader(TableNames[k]) =>
          /\ lpc \notin {"report", "done"}
          /\ step <= k
          /\ (lpc = "aborted" /\ step = k) => error = "ValueError"
          /\ \A j \in k..Len(TableNames) :
                /\ ~dry_run => store.tables[TableNames[j]] = {}
                /\ memdb.tables[TableNames[j]] = {}

\* A real run aborted at orders.csv, which lacks shipping_country and has a row,
\* after customers and products were loaded.
Wit_C9_OrdersWithoutShippingCountry ==
    /\ lpc = "aborted"
    /\ ~dry_run
    /\ error = "ValueError"
    /\ TableNames[step] = "orders"
    /\ csv_files["orders"].header = ExpectedColumns("orders") \ {"shipping_country"}
    /\ csv_files["orders"].rows # {}
    /\ store.tables["customers"] # {}
    /\ store.tables["orders"] = {}

\* What a real run on the input files builds from nothing.
Rebuilt ==
    [exists |-> TRUE,
     tables |-> FixOrderTotals(InputTables, FALSE).tables,
     other |-> {}]

\* C12: when a real run has succeeded, the database file holds what the input
\* files alone determine, whatever it held before the run: nothing left by
\* earlier use of the file, nothing left by an earlier run, and the same after
\* a second run as after the first.
Thm_C12_RebuildFromInputOnly ==
    (lpc = "done" /\ ~dry_run) => store = Rebuilt

\* A real run has succeeded on input with rows, after removing the database
\* file it found.
Wit_C12_RebuiltOverPriorStore ==
    /\ lpc = "done"
    /\ ~dry_run
    /\ removed
    /\ store.tables["orders"] # {}

\* The place of table t in the loading order.
LoadIndex(t) == CHOOSE j \in DOMAIN TableNames : TableNames[j] = t

\* The load step of the j-th table is behind the run.
Loaded(j) == j < step \/ lpc \in {"report", "done"}

\* C13: at every point of a run, the tables whose load step is behind the run
\* are the first ones of the order customers, products, orders, order_items,
\* reviews; only they hold rows in the run's database; and every table a
\* loaded table's foreign keys reference was loaded before it.
Thm_C13_ParentsLoadedFirst ==
    lpc \in {"load", "report", "done", "aborted"} =>
        \A j \in DOMAIN TableNames :
           LET db == IF dry_run THEN memdb ELSE store IN
           /\ db.tables[TableNames[j]] # {} => Loaded(j)
           /\ Loaded(j) =>
                 /\ \A i \in 1..(j - 1) : Loaded(i)
                 /\ \A fk \in ForeignKeys(TableNames[j]) :
                       /\ LoadIndex(fk.parent) < j
                       /\ Loaded(LoadIndex(fk.parent))

\* A real run is about to load order_items: orders, products and customers
\* hold rows, order_items and reviews hold none yet.
Wit_C13_BeforeOrderItems ==
    /\ lpc = "load"
    /\ ~dry_run
    /\ TableNames[step] = "order_items"
    /\ \A t \in {"customers", "products", "orders"} : store.tables[t] # {}
    /\ \A t \in {"order_items", "reviews"} : store.tables[t] = {}

(***************************************************************************)
(* Properties of the query runner.                                         *)
(***************************************************************************)
\* The line is SQL: not blank, not a comment, not the directive.
IsSqlLine(line) ==
    /\ Strip(line) # <<>>
    /\ ~StartsWithComment(Strip(line))
    /\ ~IsExplainLine(line)

\* A batch of semicolon-terminated statements, one of them marked by a
\* plan-explanation directive on the line before it.
MarkedBatch(batch) ==
    /\ batch # <<>>
    /\ \A i \in DOMAIN batch : IsSqlLine(batch[i]) \/ batch[i] = <<"EXPLAIN QUERY PLAN">>
    /\ Cardinality({i \in DOMAIN batch : IsExplainLine(batch[i])}) = 1
    /\ EndsWithSemicolon(batch[Len(batch)])
    /\ \A i \in DOMAIN batch :
          IsExplainLine(batch[i]) => (i = 1 \/ EndsWithSemicolon(batch[i - 1]))

\* The statements of such a batch: one per terminator.
StatementCount(batch) ==
    Cardinality({i \in DOMAIN batch : IsSqlLine(batch[i]) /\ EndsWithSemicolon(batch[i])})

\* C10: a batch of semicolon-terminated statements with one statement marked by
\* the plan-explanation directive, wherever the directive stands, is split into
\* exactly one unit per statement.
Claim_C10_OneUnitPerStatement ==
    (qpc = "execute" /\ MarkedBatch(content)) =>
        Len(queries) = StatementCount(content)

\* The units the execution loop does not skip, among the first n.
NonEmptyUnits(n) ==
    {i \in 1..Min(n, Len(queries)) : ~IsEmptyText(TrimUnit(queries[i]))}

\* C11: every non-empty unit is executed exactly once and in batch order,
\* whatever the outcome of the units before it: the executions logged so far
\* are those of the non-empty units the loop has passed, in increasing order,
\* and the run ends only after the last unit.
Thm_C11_EveryUnitExecutedOnce ==
    qpc \in {"execute", "done"} =>
        /\ {log[k].i : k \in DOMAIN log} = NonEmptyUnits(query_no - 1)
        /\ \A k, l \in DOMAIN log : k < l => log[k].i < log[l].i
        /\ \A k \in DOMAIN log : log[k].query = TrimUnit(queries[log[k].i])
        /\ qpc = "done" => query_no = Len(queries) + 1

\* C11 witness: a finished run in which a unit failed and a later unit was
\* executed, and a unit was skipped as empty.
Wit_C11_ErrorThenLaterUnit ==
    /\ qpc = "done"
    /\ \E k, l \in DOMAIN log : k < l /\ log[k].outcome = "error"
    /\ Len(log) < Len(queries)

\* The line is a comment that contains the text 'Query'.
IsSectionComment(line) ==
    StartsWithComment(Strip(line)) /\ Contains(Strip(line), "Query")

\* The line is blank, or a comment without the text 'Query'.
IsPlainCommentOrBlank(line) ==
    \/ Strip(line) = <<>>
    \/ StartsWithComment(Strip(line)) /\ ~Contains(Strip(line), "Query")

\* The accumulated lines as a unit, if there are any.
Flushed(cur) == IF cur = <<>> THEN <<>> ELSE <<cur>>

RECURSIVE UnitsBySection(_, _, _, _, _)
\* The units of a batch when every comment with 'Query' cuts it: the lines
\* between two such comments are split on their own, what they leave
\* accumulated is a unit of its own, and only the open plan-explanation block
\* carries over.
UnitsBySection(batch, i, qs, cur, inx) ==
    IF i > Len(batch) THEN qs \o Flushed(cur)
    ELSE IF IsSectionComment(batch[i])
    THEN UnitsBySection(batch, i + 1, qs \o Flushed(cur), <<>>, inx)
    ELSE LET new == SplitStep(batch[i], qs, cur, inx)
         IN UnitsBySection(batch, i + 1, new.queries, new.current_query,
                           new.in_explain)

\* C15: a comment line with the text 'Query' makes the accumulated lines one
\* unit and starts the next unit empty, terminator seen or not, plan-explanation
\* block open or not, so the units of a batch are those of its parts between
\* such comments, none holding lines of two parts; a blank line and any other
\* comment leave the units, the accumulated lines and the block as they are.
Thm_C15_SectionCommentCuts ==
    /\ [][(qpc = "split" /\ line_no' = line_no + 1) =>
            /\ IsSectionComment(content[line_no]) =>
                  /\ queries' = queries \o Flushed(current_query)
                  /\ current_query' = <<>>
            /\ IsPlainCommentOrBlank(content[line_no]) =>
                  UNCHANGED <<queries, current_query, in_explain>>]_vars
    /\ [](qpc # "split" =>
            queries = UnitsBySection(content, 1, <<>>, <<>>, FALSE))

\* A comment with 'Query' stands between an unterminated statement inside an
\* open plan-explanation block and a later statement: two units.
Wit_C15_CutInsideOpenBlock ==
    /\ qpc = "execute"
    /\ content = << <<"EXPLAIN QUERY PLAN">>, <<"SELECT 3">>,
                    <<"--", " ", "Query">>, <<"SELECT 1", ";">> >>
    /\ queries = << << <<"SELECT 3">> >>, << <<"SELECT 1", ";">> >> >>

====
